---- MODULE Spec2Model ----
(***************************************************************************)
(* Model of the hashchain library: an append only log of fixed size        *)
(* records  timestamp(8) || message(M) || hash(H)  where the hash of       *)
(* record n covers  hash(n-1) || timestamp(n) || message(n).               *)
(*                                                                         *)
(* Writer is modelled from writer.go, Reader from the reader source.       *)
(* The store is an os.File like io.ReadWriteSeeker: a byte sequence and    *)
(* one cursor shared by every user of the handle.                          *)
(*                                                                         *)
(* Bytes.  A byte written by a caller has a value in 0..255.  The injected *)
(* hash function is taken to be collision free (two digests are equal      *)
(* exactly when their inputs are), which is what a cryptographic hash      *)
(* gives up to negligible probability; nothing else is assumed about it.   *)
(* The variable digests lists the inputs a Writer has hashed; byte k of    *)
(* the digest of the n-th of them is the number 256 + n * HashSize + k,    *)
(* and an input that no Writer has hashed has a digest that is nowhere in  *)
(* the store.                                                              *)
(*                                                                         *)
(* Time.  A time.Time is modelled by its instant in nanoseconds since the  *)
(* epoch (the value of UnixNano), and the Time of a Record by the pair     *)
(* <<sec, nsec>> that time.Unix normalises its arguments to.  The times    *)
(* written fit 31 bits and their 8 byte two's complement encoding is       *)
(* exact; 8 bytes that decode to a larger number give FarTime.             *)
(***************************************************************************)
EXTENDS Integers, Sequences, FiniteSets, TLC

\* ------------------------------------------------------------------------
\* Bounds of the model
\* ------------------------------------------------------------------------
\* size of a message (messageSize argument of NewWriter/NewReader)
MessageSize == 2
\* size of a digest (hasher.Size())
HashSize == 2
\* Write is not taken once the store holds this many records
MaxRecords == 3
\* number of byte overwrites of the store taken in SpecTamper
MaxCorrupt == 1

\* ------------------------------------------------------------------------
\* Program constants
\* ------------------------------------------------------------------------
timestampSize == 8
\* int64(time.Second)
Second == 1000000000

recordSize == timestampSize + MessageSize + HashSize

\* ------------------------------------------------------------------------
\* State
\* ------------------------------------------------------------------------
VARIABLES
    store,      \* the bytes of the file
    pos,        \* the cursor of the file handle
    writer,     \* the Writer: lastRecordID and buf
    digests,    \* the inputs hashed by a Writer, in the order of their hashing
    log,        \* what the caller holds: for every successful Write its time,
                \* message and the id and hash returned
    dirty,      \* offsets of the store overwritten behind the Writer's back
    last,       \* the last call and what it returned
    mu,         \* Writer.mu: the caller that holds it
    calls       \* for every caller, the call it is in and the step it is at

vars == <<store, pos, writer, digests, log, dirty, last, mu, calls>>

\* ------------------------------------------------------------------------
\* Bytes, digests, times
\* ------------------------------------------------------------------------
\* make([]byte, n)
Zeros(n) == [k \in 1..n |-> 0]

\* the place of data among the inputs hashed so far, the next free place
\* when it is not among them
DigestIndex(data) ==
    IF \E n \in 1..Len(digests) : digests[n] = data
    THEN CHOOSE n \in 1..Len(digests) : digests[n] = data
    ELSE Len(digests) + 1

\* hasher.Reset(); hasher.Write(data); hasher.Sum(nil)
Hash(data) ==
    [k \in 1..HashSize |-> 256 + DigestIndex(data) * HashSize + (k - 1)]

\* s[from:to] of Go, 0 based, to exclusive
Slice(s, from, to) == SubSeq(s, from + 1, to)

Min(a, b) == IF a < b THEN a ELSE b

RECURSIVE Pow256(_)
Pow256(k) == IF k = 0 THEN 1 ELSE 256 * Pow256(k - 1)

\* byte k (1 = most significant) of the 64 bit two's complement of t,
\* for |t| < 2^31: the four high bytes are the sign extension
Uint64Byte(t, k) ==
    LET mag == IF t >= 0 THEN t ELSE (-t) - 1
        b   == IF k <= 4 THEN 0 ELSE (mag \div Pow256(8 - k)) % 256
    IN  IF t >= 0 THEN b ELSE 255 - b

\* binary.BigEndian.PutUint64(buf, uint64(t.UnixNano()))
PutUint64(t) == [k \in 1..timestampSize |-> Uint64Byte(t, k)]

RECURSIVE Horner(_, _, _)
Horner(digits, k, acc) ==
    IF k > Len(digits) THEN acc
    ELSE Horner(digits, k + 1, acc * 256 + digits[k])

\* int64(binary.BigEndian.Uint64(data))
Int64Of(vals) ==
    IF vals[1] >= 128
    THEN -1 - Horner([k \in 1..Len(vals) |-> 255 - vals[k]], 1, 0)
    ELSE Horner(vals, 1, 0)

\* Go's integer division and remainder truncate toward zero
GoDiv(a, b) == IF a >= 0 THEN a \div b ELSE -((-a) \div b)
GoMod(a, b) == a - b * GoDiv(a, b)

\* time.Unix(sec, nsec): nsec is normalised into [0, 1e9)
TimeUnix(sec, nsec) ==
    LET n  == IF nsec < 0 \/ nsec >= Second THEN GoDiv(nsec, Second) ELSE 0
        s1 == sec + n
        n1 == nsec - n * Second
    IN  IF n1 < 0 THEN <<s1 - 1, n1 + Second>> ELSE <<s1, n1>>

\* the time.Time whose UnixNano() is t, as time.Time.Equal compares it
TimeOfNano(t) == <<t \div Second, t % Second>>

\* the 8 bytes are the two's complement of a number of at most 31 bits
Fits31(vals) ==
    \/ (\A k \in 1..4 : vals[k] = 0) /\ vals[5] < 128
    \/ (\A k \in 1..4 : vals[k] = 255) /\ vals[5] \in 128..255

\* stands for every time.Time whose UnixNano needs more than 31 bits
FarTime == <<0, -1>>

\* decodeRecord: data is timestamp || message
decodeTime(data) ==
    LET bytes     == Slice(data, 0, timestampSize)
        timestamp == Int64Of(bytes)
    IN  IF Fits31(bytes) /\ \A k \in 5..8 : bytes[k] \in 0..255
        THEN TimeUnix(GoDiv(timestamp, Second), GoMod(timestamp, Second))
        ELSE FarTime

decodeMessage(data) == Slice(data, timestampSize, Len(data))

\* ------------------------------------------------------------------------
\* Errors
\* ------------------------------------------------------------------------
NoError == [kind |-> "nil", tagged |-> FALSE, id |-> 0]
Err(kind) == [kind |-> kind, tagged |-> FALSE, id |-> 0]
\* fmt.Errorf("record %v: %w", id, err)
ErrRecord(kind, id) == [kind |-> kind, tagged |-> TRUE, id |-> id]

\* ------------------------------------------------------------------------
\* The store handle (io.ReadWriteSeeker backed by a file)
\* ------------------------------------------------------------------------
\* r.Seek(0, io.SeekEnd)
SeekEnd(file) == Len(file)

\* r.Read(data) with the cursor at c and len(data) = n:
\* the bytes available, at most n; io.EOF when there are none
FileRead(file, c, n) ==
    LET got == Min(n, Len(file) - c)
    IN  IF got <= 0
        THEN [eof |-> TRUE, n |-> 0, data |-> <<>>]
        ELSE [eof |-> FALSE, n |-> got, data |-> Slice(file, c, c + got)]

\* w.Write(p) with the cursor at c: overwrite and extend; the bytes between
\* the end of the file and a cursor behind it read as zero
FileWrite(file, c, p) ==
    [k \in 1..(IF c + Len(p) > Len(file) THEN c + Len(p) ELSE Len(file)) |->
        IF k > c /\ k <= c + Len(p) THEN p[k - c]
        ELSE IF k <= Len(file) THEN file[k] ELSE 0]

\* readAt(r, offset, data) with len(data) = n.  off is the returned offset,
\* pos the cursor the handle is left with.
readAt(file, offset, n) ==
    IF offset < 0
    THEN [err |-> Err("Seek"), off |-> 0, data |-> <<>>, pos |-> 0]
    ELSE LET rd == FileRead(file, offset, n)
         IN  IF rd.eof
             THEN [err |-> Err("NotFound"), off |-> 0, data |-> <<>>,
                   pos |-> offset]
             ELSE IF rd.n # n
             THEN [err |-> Err("IncompleteRead"), off |-> 0,
                   data |-> rd.data, pos |-> offset + rd.n]
             ELSE [err |-> NoError, off |-> offset + rd.n,
                   data |-> rd.data, pos |-> offset + rd.n]

\* ------------------------------------------------------------------------
\* Writer
\* ------------------------------------------------------------------------
\* len of Writer.buf: previous hash || timestamp || message || hash
bufSize == HashSize + timestampSize + MessageSize + HashSize

\* NewWriter with lastRecordID set to the number of records
NewWriterCount(file) ==
    LET offset == SeekEnd(file)
        buf    == Zeros(bufSize)
    IN  IF offset > HashSize
        THEN LET ra == readAt(file, offset - HashSize, HashSize)
             IN  IF ra.err # NoError
                 THEN [err |-> ra.err, pos |-> ra.pos,
                       w |-> [lastRecordID |-> -1, buf |-> buf]]
                 ELSE [err |-> NoError, pos |-> ra.pos,
                       w |-> [lastRecordID |-> ra.off \div recordSize,
                              buf |-> ra.data \o Slice(buf, HashSize, bufSize)]]
        ELSE [err |-> NoError, pos |-> offset,
              w |-> [lastRecordID |-> offset \div recordSize, buf |-> buf]]

\* NewWriter(w, newHasher, messageSize)
NewWriter(file) ==
    LET offset == SeekEnd(file)
        buf    == Zeros(bufSize)
    IN  IF offset > HashSize
        THEN LET ra == readAt(file, offset - HashSize, HashSize)
             IN  IF ra.err # NoError
                 THEN [err |-> ra.err, pos |-> ra.pos,
                       w |-> [lastRecordID |-> -1, buf |-> buf]]
                 ELSE [err |-> NoError, pos |-> ra.pos,
                       w |-> [lastRecordID |-> (ra.off \div recordSize) - 1,
                              buf |-> ra.data \o Slice(buf, HashSize, bufSize)]]
        ELSE [err |-> NoError, pos |-> offset,
              w |-> [lastRecordID |-> (offset \div recordSize) - 1,
                     buf |-> buf]]

\* the inputs hashed once data is hashed
Hashed(data) ==
    IF DigestIndex(data) > Len(digests) THEN Append(digests, data) ELSE digests

\* Write, the buffer after the timestamp and the message are put behind the
\* previous hash and the hash of these three is appended
WriteFill(buf, t, message) ==
    LET head == Slice(buf, 0, HashSize) \o PutUint64(t) \o message
    IN  head \o Hash(head)

\* Write that hands the whole buffer to the store
WriteRecordWhole(buf) == buf

\* Write, the bytes handed to the store: the buffer without the previous hash
WriteRecord(buf) == Slice(buf, HashSize, Len(buf))

\* Write, the hash returned to the caller
WriteHash(buf) == Slice(buf, HashSize + timestampSize + MessageSize, Len(buf))

\* Write that leaves the previous hash in the buffer
WriteKeepStale(buf) == buf

\* Write, the buffer after the new hash is copied to its beginning
WriteKeep(buf) == WriteHash(buf) \o Slice(buf, HashSize, Len(buf))

\* Write that returns the id before it is incremented
WriteIDBefore(w) == w.lastRecordID

\* Write, the id returned: w.lastRecordID++
WriteID(w) == w.lastRecordID + 1

\* Write that rejects only the messages that are too long
WriterWriteAtMost(w, file, c, t, message) ==
    IF Len(message) > MessageSize
    THEN [err |-> Err("InvalidMessageSize"), id |-> 0, hash |-> <<>>,
          w |-> w, file |-> file, pos |-> c, digests |-> digests]
    ELSE LET buf == WriteFill(w.buf, t, message)
             end == SeekEnd(file)
             out == FileWrite(file, end, WriteRecord(buf))
         IN  [err |-> NoError, id |-> WriteID(w),
              hash |-> WriteHash(buf),
              w |-> [lastRecordID |-> w.lastRecordID + 1,
                     buf |-> WriteKeep(buf)],
              file |-> out, pos |-> Len(out),
              digests |-> Hashed(Slice(buf, 0, Len(buf) - HashSize))]

\* Writer.Write(t, message) on the writer w: the error, the returned id and
\* hash, the writer, the store and the cursor after the call
WriterWrite(w, file, c, t, message) ==
    IF Len(message) # MessageSize
    THEN [err |-> Err("InvalidMessageSize"), id |-> 0, hash |-> <<>>,
          w |-> w, file |-> file, pos |-> c, digests |-> digests]
    ELSE LET buf == WriteFill(w.buf, t, message)
             end == SeekEnd(file)
             out == FileWrite(file, end, WriteRecord(buf))
         IN  [err |-> NoError, id |-> WriteID(w),
              hash |-> WriteHash(buf),
              w |-> [lastRecordID |-> w.lastRecordID + 1,
                     buf |-> WriteKeep(buf)],
              file |-> out, pos |-> Len(out),
              digests |-> Hashed(Slice(buf, 0, HashSize + timestampSize + MessageSize))]

\* Write that counts the record and moves the head although w.w.Write failed
WriterWriteShortCounted(w, file, c, t, message, n) ==
    IF Len(message) # MessageSize
    THEN [err |-> Err("InvalidMessageSize"), id |-> 0, hash |-> <<>>,
          w |-> w, file |-> file, pos |-> c, digests |-> digests]
    ELSE LET buf == WriteFill(w.buf, t, message)
             end == SeekEnd(file)
             out == FileWrite(file, end, Slice(WriteRecord(buf), 0, n))
         IN  [err |-> Err("Write"), id |-> 0, hash |-> <<>>,
              w |-> [lastRecordID |-> w.lastRecordID + 1,
                     buf |-> WriteKeep(buf)],
              file |-> out, pos |-> Len(out),
              digests |-> Hashed(Slice(buf, 0, HashSize + timestampSize + MessageSize))]

\* Writer.Write(t, message) when w.w.Write writes only the first n bytes of
\* the record and returns an error (n = 0: nothing is written)
WriterWriteShort(w, file, c, t, message, n) ==
    IF Len(message) # MessageSize
    THEN [err |-> Err("InvalidMessageSize"), id |-> 0, hash |-> <<>>,
          w |-> w, file |-> file, pos |-> c, digests |-> digests]
    ELSE LET buf == WriteFill(w.buf, t, message)
             end == SeekEnd(file)
             out == FileWrite(file, end, Slice(WriteRecord(buf), 0, n))
         IN  [err |-> Err("Write"), id |-> 0, hash |-> <<>>,
              w |-> [lastRecordID |-> w.lastRecordID, buf |-> buf],
              file |-> out, pos |-> Len(out),
              digests |-> Hashed(Slice(buf, 0, HashSize + timestampSize + MessageSize))]

\* Writer.Write(t, message) when w.w.Seek returns an error
WriterWriteSeekFails(w, file, c, t, message) ==
    IF Len(message) # MessageSize
    THEN [err |-> Err("InvalidMessageSize"), id |-> 0, hash |-> <<>>,
          w |-> w, file |-> file, pos |-> c, digests |-> digests]
    ELSE LET buf == WriteFill(w.buf, t, message)
         IN  [err |-> Err("Seek"), id |-> 0, hash |-> <<>>,
              w |-> [lastRecordID |-> w.lastRecordID, buf |-> buf],
              file |-> file, pos |-> c,
              digests |-> Hashed(Slice(buf, 0, HashSize + timestampSize + MessageSize))]

\* ------------------------------------------------------------------------
\* Reader
\* ------------------------------------------------------------------------
NoRecord == [ID |-> -1, Time |-> <<0, 0>>, Message |-> <<>>, Hash |-> <<>>]

\* validateIntegrity that compares the lengths only
validateIntegrityLen(h, data) == Len(Hash(data)) = Len(h)

\* Reader.validateIntegrity(h, data)
validateIntegrity(h, data) == Hash(data) = h

\* Read that takes the number of records for the last id
ReadLastIDCount(file) == SeekEnd(file) \div recordSize

\* Read: the id a negative id stands for
ReadLastID(file) == (SeekEnd(file) \div recordSize) - 1

\* Read that reads from the start of record id
ReadDataNoPrev(file, id) ==
    IF id = 0
    THEN LET ra == readAt(file, 0, recordSize)
         IN  [ra EXCEPT !.data = IF ra.err = NoError
                                 THEN Zeros(HashSize) \o ra.data ELSE <<>>]
    ELSE readAt(file, id * recordSize, HashSize + recordSize)

\* Read: the positional read of record id with the hash before it
ReadData(file, id) ==
    IF id = 0
    THEN LET ra == readAt(file, 0, recordSize)
         IN  [ra EXCEPT !.data = IF ra.err = NoError
                                 THEN Zeros(HashSize) \o ra.data ELSE <<>>]
    ELSE readAt(file, id * recordSize - HashSize, HashSize + recordSize)

\* Read: the error of a failed integrity validation
ReadIntegrityError(id) == Err("Integrity")

\* Reader.Read(id) with the cursor at c: error, record and cursor
ReaderRead(file, c, id) ==
    IF id < 0 /\ SeekEnd(file) < recordSize
    THEN [err |-> Err("NotFound"), rec |-> NoRecord, pos |-> SeekEnd(file)]
    ELSE LET rid  == IF id < 0 THEN ReadLastID(file) ELSE id
             ra   == ReadData(file, rid)
             data == ra.data
             hash == Slice(data, recordSize, recordSize + HashSize)
         IN  IF ra.err # NoError
             THEN [err |-> ra.err, rec |-> NoRecord, pos |-> ra.pos]
             ELSE IF ~validateIntegrity(hash, Slice(data, 0, recordSize))
             THEN [err |-> ReadIntegrityError(rid), rec |-> NoRecord,
                   pos |-> ra.pos]
             ELSE [err |-> NoError, pos |-> ra.pos,
                   rec |-> [ID |-> rid, Hash |-> hash,
                            Time |-> decodeTime(Slice(data, HashSize, recordSize)),
                            Message |-> decodeMessage(Slice(data, HashSize, recordSize))]]

\* Read: the offset and the length of the positional read of record id
ReadOffset(id) == IF id = 0 THEN 0 ELSE id * recordSize - HashSize
ReadLength(id) == IF id = 0 THEN recordSize ELSE HashSize + recordSize

\* readAt after its Seek has returned c: r.Read(data), len(data) = n, reads
\* at the cursor cur the handle has by then
readAtRead(file, cur, c, n) ==
    LET rd == FileRead(file, cur, n)
    IN  IF rd.eof
        THEN [err |-> Err("NotFound"), off |-> 0, data |-> <<>>, pos |-> cur]
        ELSE IF rd.n # n
        THEN [err |-> Err("IncompleteRead"), off |-> 0, data |-> rd.data,
              pos |-> cur + rd.n]
        ELSE [err |-> NoError, off |-> c + rd.n, data |-> rd.data,
              pos |-> cur + rd.n]

\* Read: what it returns once readAt has returned ra for record id
ReadResult(id, ra) ==
    LET data == IF id = 0 /\ ra.err = NoError
                THEN Zeros(HashSize) \o ra.data ELSE ra.data
        hash == Slice(data, recordSize, recordSize + HashSize)
    IN  IF ra.err # NoError
        THEN [err |-> ra.err, rec |-> NoRecord]
        ELSE IF ~validateIntegrity(hash, Slice(data, 0, recordSize))
        THEN [err |-> ReadIntegrityError(id), rec |-> NoRecord]
        ELSE [err |-> NoError,
              rec |-> [ID |-> id, Hash |-> hash,
                       Time |-> decodeTime(Slice(data, HashSize, recordSize)),
                       Message |-> decodeMessage(Slice(data, HashSize, recordSize))]]

\* the callback f of Iterate: it continues, or it stops or fails at record `at`
Continue == [kind |-> "continue", at |-> 0]
StopAt(k) == [kind |-> "stop", at |-> k]
FailAt(k) == [kind |-> "fail", at |-> k]

\* f(record): <<cont, failed>>
Visit(cb, rec) ==
    IF cb.kind = "fail" /\ cb.at = rec.ID THEN <<FALSE, TRUE>>
    ELSE IF cb.kind = "stop" /\ cb.at = rec.ID THEN <<FALSE, FALSE>>
    ELSE <<TRUE, FALSE>>

\* Iterate: the offset of the next record to read, clamped to 0
ClampOffset(o) == IF o < 0 THEN 0 ELSE o

\* Iterate that reports an empty store for a negative startID too
IterateStartStrict(file, startID) ==
    LET offset == IF startID < 0 THEN SeekEnd(file)
                  ELSE (startID + 1) * recordSize
    IN  IF offset < recordSize
        THEN [resolved |-> FALSE, ret |-> Err("NotFound"), offset |-> offset]
        ELSE [resolved |-> TRUE, ret |-> NoError, offset |-> offset]

\* Iterate that starts at the start of record startID
IterateStartBefore(file, startID) ==
    LET offset == IF startID < 0 THEN SeekEnd(file)
                  ELSE startID * recordSize
    IN  IF offset < recordSize
        THEN [resolved |-> FALSE,
              ret |-> IF startID < 0 THEN NoError ELSE Err("NotFound"),
              offset |-> offset]
        ELSE [resolved |-> TRUE, ret |-> NoError, offset |-> offset]

\* Iterate: the offset the walk starts from; resolved is FALSE when Iterate
\* returns before reading (ret is then its result)
IterateStart(file, startID) ==
    IF startID < 0
    THEN LET offset == SeekEnd(file)
         IN  IF offset < recordSize
             THEN [resolved |-> FALSE, ret |-> NoError, offset |-> offset]
             ELSE [resolved |-> TRUE, ret |-> NoError, offset |-> offset]
    ELSE LET startOffset == (startID + 1) * recordSize
         IN  IF startOffset < recordSize
             THEN [resolved |-> FALSE, ret |-> Err("NotFound"),
                   offset |-> startOffset]
             ELSE [resolved |-> TRUE, ret |-> NoError, offset |-> startOffset]

\* Iterate: the record read at nextRecordOffset with the hash before it
IterateData(file, nextRecordOffset) ==
    IF nextRecordOffset = 0
    THEN LET ra == readAt(file, 0, recordSize - HashSize)
         IN  [ra EXCEPT !.data = IF ra.err = NoError
                                 THEN Zeros(HashSize) \o ra.data ELSE <<>>]
    ELSE readAt(file, nextRecordOffset, recordSize)

\* Iterate that steps back by one record from the end of the record read
IterateNextSame(offset) == ClampOffset(offset - recordSize)

\* Iterate that steps back by the hash once more
IterateNextSkew(offset) == ClampOffset(offset - 2 * recordSize - HashSize)

\* Iterate: the offset of the record before the one that ends HashSize
\* bytes before offset
IterateNext(offset) == ClampOffset(offset - 2 * recordSize)

\* Iterate that takes the bytes behind the previous hash
IteratePrevHashBehind(data) == Slice(data, HashSize, 2 * HashSize)

\* Iterate: copy(hash, data[:r.hashSize]), the hash the next record read
\* has to have
IteratePrevHash(data) == Slice(data, 0, HashSize)

\* Iterate that goes on when f returns false
RECURSIVE IterateLoopNoStop(_, _, _, _, _)
IterateLoopNoStop(file, cb, nextRecordOffset, hash, visits) ==
    LET ra     == IterateData(file, nextRecordOffset)
        offset == ra.off
        data   == ra.data
        id     == offset \div recordSize
        record == [ID |-> id, Hash |-> hash,
                   Time |-> decodeTime(Slice(data, HashSize, recordSize)),
                   Message |-> decodeMessage(Slice(data, HashSize, recordSize))]
        r      == Visit(cb, record)
    IN  IF ra.err # NoError
        THEN [err |-> ra.err, visits |-> visits, pos |-> ra.pos]
        ELSE IF ~validateIntegrity(hash, Slice(data, 0, recordSize))
        THEN [err |-> ErrRecord("Integrity", id), visits |-> visits,
              pos |-> ra.pos]
        ELSE IF r[2]
        THEN [err |-> ErrRecord("Callback", id),
              visits |-> Append(visits, record), pos |-> ra.pos]
        ELSE IF id = 0
        THEN [err |-> NoError, visits |-> Append(visits, record),
              pos |-> ra.pos]
        ELSE IterateLoopNoStop(file, cb, IterateNext(offset),
                               IteratePrevHash(data), Append(visits, record))

\* Iterate: the body of the for loop, from the read at nextRecordOffset on;
\* hash is the hash the record read has to have, visits the records passed
\* to f so far
RECURSIVE IterateLoop(_, _, _, _, _)
IterateLoop(file, cb, nextRecordOffset, hash, visits) ==
    LET ra     == IterateData(file, nextRecordOffset)
        offset == ra.off
        data   == ra.data
        id     == offset \div recordSize
        record == [ID |-> id, Hash |-> hash,
                   Time |-> decodeTime(Slice(data, HashSize, recordSize)),
                   Message |-> decodeMessage(Slice(data, HashSize, recordSize))]
        r      == Visit(cb, record)
    IN  IF ra.err # NoError
        THEN [err |-> ra.err, visits |-> visits, pos |-> ra.pos]
        ELSE IF ~validateIntegrity(hash, Slice(data, 0, recordSize))
        THEN [err |-> ErrRecord("Integrity", id), visits |-> visits,
              pos |-> ra.pos]
        ELSE IF r[2]
        THEN [err |-> ErrRecord("Callback", id),
              visits |-> Append(visits, record), pos |-> ra.pos]
        ELSE IF ~r[1] \/ id = 0
        THEN [err |-> NoError, visits |-> Append(visits, record),
              pos |-> ra.pos]
        ELSE IterateLoop(file, cb, IterateNext(offset),
                         IteratePrevHash(data), Append(visits, record))

\* Reader.Iterate(startID, f): error, the records passed to f in call order,
\* and the cursor
ReaderIterate(file, c, startID, cb) ==
    LET st == IterateStart(file, startID)
    IN  IF ~st.resolved
        THEN [err |-> st.ret, visits |-> <<>>, pos |-> st.offset]
        ELSE LET ra == readAt(file, st.offset - HashSize, HashSize)
             IN  IF ra.err # NoError
                 THEN [err |-> ra.err, visits |-> <<>>, pos |-> ra.pos]
                 ELSE IterateLoop(file, cb,
                                  ClampOffset(ra.off - HashSize - recordSize),
                                  ra.data, <<>>)

\* ------------------------------------------------------------------------
\* Inputs
\* ------------------------------------------------------------------------
\* UnixNano of the times written
Times == {-1, 1500000000}

MessageOf(seed, n) == [k \in 1..n |-> (seed + 60 * k) % 256]

\* messages of the configured size
Messages == {MessageOf(7, MessageSize), MessageOf(200, MessageSize)}

\* messages of another size
BadMessages == {MessageOf(7, MessageSize - 1), MessageOf(7, MessageSize + 1)}

\* ids asked of Read and Iterate
IDs == -2..MaxRecords

\* the callbacks passed to Iterate
Callbacks == {Continue, StopAt(1), FailAt(1), FailAt(0)}

\* ids asked of Read and Iterate in SpecTamper and SpecVisit
TamperIDs == -1..MaxRecords

\* the inputs of the Writes of SpecTamper and SpecVisit
TamperInputs == {<<-1, MessageOf(7, MessageSize)>>,
                 <<1500000000, MessageOf(200, MessageSize)>>}

\* offsets inside a record that Corrupt overwrites: the first byte of the
\* timestamp, the first and the last byte of the message, the last byte of
\* the hash
FieldEnds == {0, timestampSize, timestampSize + MessageSize - 1,
              recordSize - 1}

CorruptOffsets ==
    {k * recordSize + o : k \in 0..((Len(store) \div recordSize) - 1),
                          o \in FieldEnds}

Result(op, arg, cb, err, rec, visits) ==
    [op |-> op, arg |-> arg, cb |-> cb, err |-> err, rec |-> rec,
     visits |-> visits]

\* the goroutines that call the Writer and the Reader at the same time
Callers == {"a", "b"}

\* no caller: the mutex is free
NoCaller == "none"

\* a caller that is in no call
Idle == [pc |-> "idle", id |-> 0, rid |-> 0, c |-> 0, t |-> 0, message |-> <<>>,
         hash |-> <<>>, visits |-> <<>>]

\* ------------------------------------------------------------------------
\* Actions
\* ------------------------------------------------------------------------
Init ==
    /\ store = <<>>
    /\ pos = NewWriter(<<>>).pos
    /\ writer = NewWriter(<<>>).w
    /\ digests = <<>>
    /\ log = <<>>
    /\ dirty = {}
    /\ last = Result("NewWriter", 0, Continue, NoError, NoRecord, <<>>)
    /\ mu = NoCaller
    /\ calls = [p \in Callers |-> Idle]

\* writer.Write(t, message)
Write(t, message) ==
    /\ Len(store) < MaxRecords * recordSize
    /\ \E r \in {WriterWrite(writer, store, pos, t, message)} :
       LET rec == [ID |-> r.id, Time |-> TimeOfNano(t),
                   Message |-> message, Hash |-> r.hash]
       IN  /\ store' = r.file
           /\ digests' = r.digests
           /\ pos' = r.pos
           /\ writer' = r.w
           /\ log' = IF r.err = NoError THEN Append(log, rec) ELSE log
           /\ last' = Result("Write", 0, Continue, r.err,
                             IF r.err = NoError THEN rec ELSE NoRecord, <<>>)
    /\ UNCHANGED <<dirty, mu, calls>>

\* writer.Write(t, message) on a store that fails after n bytes of the
\* record; the store fails once, on a store of whole records
WriteShort(t, message, n) ==
    /\ Len(store) < MaxRecords * recordSize
    /\ Len(store) % recordSize = 0
    /\ \E r \in {WriterWriteShort(writer, store, pos, t, message, n)} :
           /\ store' = r.file
           /\ digests' = r.digests
           /\ pos' = r.pos
           /\ writer' = r.w
           /\ last' = Result("Write", 0, Continue, r.err, NoRecord, <<>>)
    /\ UNCHANGED <<log, dirty, mu, calls>>

\* writer.Write(t, message) on a store whose Seek fails
WriteSeekFails(t, message) ==
    /\ Len(store) < MaxRecords * recordSize
    /\ \E r \in {WriterWriteSeekFails(writer, store, pos, t, message)} :
           /\ store' = r.file
           /\ digests' = r.digests
           /\ pos' = r.pos
           /\ writer' = r.w
           /\ last' = Result("Write", 0, Continue, r.err, NoRecord, <<>>)
    /\ UNCHANGED <<log, dirty, mu, calls>>

\* a record is appended through another handle of the file: NewWriter on
\* that handle and one Write of the Writer it returns; the cursor of this
\* handle and this Writer are not touched
OtherWrite(t, message) ==
    /\ Len(store) < MaxRecords * recordSize
    /\ \E o \in {NewWriter(store)} :
         \E r \in {WriterWrite(o.w, store, o.pos, t, message)} :
           /\ o.err = NoError /\ r.err = NoError
           /\ store' = r.file
           /\ digests' = r.digests
           /\ last' = Result("OtherWrite", 0, Continue, r.err, NoRecord, <<>>)
    /\ UNCHANGED <<pos, writer, log, dirty, mu, calls>>

\* the file is closed and opened again, and NewWriter is called on it
Reopen ==
    /\ \E r \in {NewWriter(store)} :
           /\ r.err = NoError
           /\ writer' = r.w
           /\ pos' = r.pos
           /\ last' = Result("NewWriter", 0, Continue, r.err, NoRecord, <<>>)
    /\ UNCHANGED <<store, digests, log, dirty, mu, calls>>

\* reader.Read(id)
Read(id) ==
    /\ \E r \in {ReaderRead(store, pos, id)} :
           /\ pos' = r.pos
           /\ last' = Result("Read", id, Continue, r.err, r.rec, <<>>)
    /\ UNCHANGED <<store, writer, digests, log, dirty, mu, calls>>

\* reader.Iterate(startID, f)
Iterate(startID, cb) ==
    /\ \E r \in {ReaderIterate(store, pos, startID, cb)} :
           /\ pos' = r.pos
           /\ last' = Result("Iterate", startID, cb, r.err, NoRecord, r.visits)
    /\ UNCHANGED <<store, writer, digests, log, dirty, mu, calls>>

\* a byte of the store is changed by something else than the Writer
Corrupt(offset) ==
    /\ Cardinality(dirty) < MaxCorrupt
    /\ offset \notin dirty
    /\ store' = [store EXCEPT ![offset + 1] = 255 - (@ % 256)]
    /\ dirty' = dirty \cup {offset}
    /\ last' = Result("Corrupt", offset, Continue, NoError, NoRecord, <<>>)
    /\ UNCHANGED <<pos, writer, digests, log, mu, calls>>

\* a store of 2 * recordSize - 1 bytes made outside the library with the
\* hasher of the Reader: recordSize - 1 bytes that end with the hash h0 of
\* the frame Iterate reads at offset 0 (zero(H), then the first
\* recordSize - hashSize bytes of the store, the last of them the first byte
\* of h0), then a timestamp and a message, then the hash of h0, that
\* timestamp and that message
ForgedHead == Zeros(recordSize - HashSize - 1)

ForgedFirst ==
    [k \in 1..HashSize |-> 256 + (Len(digests) + 1) * HashSize + (k - 1)]

ForgedFrame == Zeros(HashSize) \o ForgedHead \o <<ForgedFirst[1]>>

ForgedSecond ==
    [k \in 1..HashSize |-> 256 + (Len(digests) + 2) * HashSize + (k - 1)]

ForgedStore ==
    ForgedHead \o ForgedFirst \o Zeros(recordSize - HashSize) \o ForgedSecond

Forge ==
    /\ Len(store) = 0
    /\ store' = ForgedStore
    /\ digests' = digests \o <<ForgedFrame,
                               ForgedFirst \o Zeros(recordSize - HashSize)>>
    /\ last' = Result("Forge", 0, Continue, NoError, NoRecord, <<>>)
    /\ UNCHANGED <<pos, writer, log, dirty, mu, calls>>

\* a mutex that excludes nobody
MutexNoExclusion(m) == TRUE

\* w.mu.Lock() returns when no caller holds the mutex
MutexFree(m) == m = NoCaller

\* a caller invokes writer.Write(t, message) and waits for w.mu
WriteCall(p, t, message) ==
    /\ calls[p].pc = "idle"
    /\ Len(log) < MaxRecords
    /\ calls' = [calls EXCEPT ![p] = [Idle EXCEPT !.pc = "lock", !.t = t,
                                                 !.message = message]]
    /\ UNCHANGED <<store, pos, writer, digests, log, dirty, last, mu>>

\* Write under w.mu up to the seek: the size check, then the timestamp, the
\* message and their hash are put in w.buf
WriteLock(p) ==
    /\ calls[p].pc = "lock"
    /\ MutexFree(mu)
    /\ IF Len(calls[p].message) # MessageSize
       THEN /\ last' = Result("Write", 0, Continue, Err("InvalidMessageSize"),
                              NoRecord, <<>>)
            /\ calls' = [calls EXCEPT ![p] = Idle]
            /\ UNCHANGED <<writer, digests, mu>>
       ELSE /\ writer' = [writer EXCEPT
                             !.buf = WriteFill(@, calls[p].t, calls[p].message)]
            /\ digests' = Hashed(Slice(writer.buf, 0, HashSize)
                                   \o PutUint64(calls[p].t) \o calls[p].message)
            /\ mu' = p
            /\ calls' = [calls EXCEPT ![p].pc = "seek"]
            /\ UNCHANGED last
    /\ UNCHANGED <<store, pos, log, dirty>>

\* Write: w.w.Seek(0, io.SeekEnd)
WriteSeek(p) ==
    /\ calls[p].pc = "seek"
    /\ pos' = SeekEnd(store)
    /\ calls' = [calls EXCEPT ![p].pc = "append"]
    /\ UNCHANGED <<store, writer, digests, log, dirty, last, mu>>

\* Write: w.w.Write(w.buf[w.hashSize:]) at the cursor, the hash is copied to
\* the head of w.buf, w.lastRecordID++, the deferred w.mu.Unlock() and return
WriteAppend(p) ==
    /\ calls[p].pc = "append"
    /\ LET rec == [ID |-> WriteID(writer), Time |-> TimeOfNano(calls[p].t),
                   Message |-> calls[p].message, Hash |-> WriteHash(writer.buf)]
       IN  /\ store' = FileWrite(store, pos, WriteRecord(writer.buf))
           /\ pos' = pos + Len(WriteRecord(writer.buf))
           /\ writer' = [lastRecordID |-> writer.lastRecordID + 1,
                         buf |-> WriteKeep(writer.buf)]
           /\ log' = Append(log, rec)
           /\ last' = Result("Write", 0, Continue, NoError, rec, <<>>)
    /\ mu' = NoCaller
    /\ calls' = [calls EXCEPT ![p] = Idle]
    /\ UNCHANGED <<digests, dirty>>

\* a caller invokes reader.Read(id), up to the first call of the handle: the
\* seek to the end for id < 0, the Seek of readAt for id >= 0
ReadCall(p, id) ==
    /\ calls[p].pc = "idle"
    /\ IF id < 0
       THEN /\ pos' = SeekEnd(store)
            /\ IF SeekEnd(store) < recordSize
               THEN /\ last' = Result("Read", id, Continue, Err("NotFound"),
                                      NoRecord, <<>>)
                    /\ UNCHANGED calls
               ELSE /\ calls' = [calls EXCEPT ![p] =
                                    [Idle EXCEPT !.pc = "seek", !.id = id,
                                                 !.rid = ReadLastID(store)]]
                    /\ UNCHANGED last
       ELSE /\ pos' = ReadOffset(id)
            /\ calls' = [calls EXCEPT ![p] =
                            [Idle EXCEPT !.pc = "read", !.id = id, !.rid = id,
                                         !.c = ReadOffset(id)]]
            /\ UNCHANGED last
    /\ UNCHANGED <<store, writer, digests, log, dirty, mu>>

\* Read: the Seek of readAt, for the id a negative id was resolved to
ReadSeek(p) ==
    /\ calls[p].pc = "seek"
    /\ pos' = ReadOffset(calls[p].rid)
    /\ calls' = [calls EXCEPT ![p].pc = "read", ![p].c = ReadOffset(calls[p].rid)]
    /\ UNCHANGED <<store, writer, digests, log, dirty, last, mu>>

\* Read: the Read of readAt at the cursor of the handle, the validation and
\* the return
ReadFinish(p) ==
    /\ calls[p].pc = "read"
    /\ LET ra == readAtRead(store, pos, calls[p].c, ReadLength(calls[p].rid))
           r  == ReadResult(calls[p].rid, ra)
       IN  /\ pos' = ra.pos
           /\ last' = Result("Read", calls[p].id, Continue, r.err, r.rec, <<>>)
    /\ calls' = [calls EXCEPT ![p] = Idle]
    /\ UNCHANGED <<store, writer, digests, log, dirty, mu>>

\* a caller invokes reader.Iterate(startID, f) with an f that always
\* continues, up to the for loop: the start offset, the read of the hash
\* the first record has to have, the offset of the first record
IterateCall(p, startID) ==
    /\ calls[p].pc = "idle"
    /\ LET st == IterateStart(store, startID)
           ra == readAt(store, st.offset - HashSize, HashSize)
       IN  IF ~st.resolved
           THEN /\ pos' = st.offset
                /\ last' = Result("Iterate", startID, Continue, st.ret,
                                  NoRecord, <<>>)
                /\ UNCHANGED calls
           ELSE IF ra.err # NoError
           THEN /\ pos' = ra.pos
                /\ last' = Result("Iterate", startID, Continue, ra.err,
                                  NoRecord, <<>>)
                /\ UNCHANGED calls
           ELSE /\ pos' = ra.pos
                /\ calls' = [calls EXCEPT ![p] =
                                [Idle EXCEPT !.pc = "loop", !.id = startID,
                                             !.c = ClampOffset(ra.off - HashSize
                                                               - recordSize),
                                             !.hash = ra.data]]
                /\ UNCHANGED last
    /\ UNCHANGED <<store, writer, digests, log, dirty, mu>>

\* Iterate: one pass of the body of the for loop, with nextRecordOffset, hash
\* and the records passed to f so far in c, hash and visits of the call
IterateStep(p) ==
    /\ calls[p].pc = "loop"
    /\ LET ra     == IterateData(store, calls[p].c)
           offset == ra.off
           data   == ra.data
           id     == offset \div recordSize
           record == [ID |-> id, Hash |-> calls[p].hash,
                      Time |-> decodeTime(Slice(data, HashSize, recordSize)),
                      Message |-> decodeMessage(Slice(data, HashSize, recordSize))]
           r      == Visit(Continue, record)
           ret    == IF ra.err # NoError
                     THEN [done |-> TRUE, err |-> ra.err,
                           visits |-> calls[p].visits]
                     ELSE IF ~validateIntegrity(calls[p].hash,
                                                Slice(data, 0, recordSize))
                     THEN [done |-> TRUE, err |-> ErrRecord("Integrity", id),
                           visits |-> calls[p].visits]
                     ELSE IF r[2]
                     THEN [done |-> TRUE, err |-> ErrRecord("Callback", id),
                           visits |-> Append(calls[p].visits, record)]
                     ELSE IF ~r[1] \/ id = 0
                     THEN [done |-> TRUE, err |-> NoError,
                           visits |-> Append(calls[p].visits, record)]
                     ELSE [done |-> FALSE, err |-> NoError,
                           visits |-> Append(calls[p].visits, record)]
       IN  /\ pos' = ra.pos
           /\ IF ret.done
              THEN /\ last' = Result("Iterate", calls[p].id, Continue, ret.err,
                                     NoRecord, ret.visits)
                   /\ calls' = [calls EXCEPT ![p] = Idle]
              ELSE /\ calls' = [calls EXCEPT ![p].c = IterateNext(offset),
                                             ![p].hash = IteratePrevHash(data),
                                             ![p].visits = ret.visits]
                   /\ UNCHANGED last
    /\ UNCHANGED <<store, writer, digests, log, dirty, mu>>

\* no caller is in a call
AllIdle == \A p \in Callers : calls[p] = Idle

Next ==
    \/ \E t \in Times, m \in Messages : Write(t, m)
    \/ \E t \in Times, m \in BadMessages : Write(t, m)
    \/ Reopen
    \/ \E id \in IDs : Read(id)
    \/ \E id \in IDs : Iterate(id, Continue)

Spec == Init /\ [][Next]_vars

\* the Writer and Iterate with callbacks that stop or fail
NextVisit ==
    \/ \E in \in TamperInputs : Write(in[1], in[2])
    \/ \E id \in TamperIDs, cb \in Callbacks : Iterate(id, cb)

SpecVisit == Init /\ [][NextVisit]_vars

NextTamper ==
    \/ \E in \in TamperInputs : Write(in[1], in[2])
    \/ \E offset \in CorruptOffsets : Corrupt(offset)
    \/ \E id \in TamperIDs : Read(id)
    \/ \E id \in TamperIDs : Iterate(id, Continue)

SpecTamper == Init /\ [][NextTamper]_vars

\* the lengths of the part of a record a failing store keeps: less than a
\* hash, and more
TornLengths == {1, recordSize - 1}

\* the caller of SpecTorn writes the two inputs in turn
NextInput ==
    IF (Len(store) \div recordSize) % 2 = 0
    THEN <<-1, MessageOf(7, MessageSize)>>
    ELSE <<1500000000, MessageOf(200, MessageSize)>>

\* a store that fails in the middle of a Write, a writer that is reopened on
\* what the store kept, and overwritten bytes
NextTorn ==
    \/ \E in \in {NextInput} : Write(in[1], in[2])
    \/ \E in \in {NextInput}, n \in TornLengths : WriteShort(in[1], in[2], n)
    \/ Reopen
    \/ \E offset \in CorruptOffsets : Corrupt(offset)
    \/ \E id \in TamperIDs : Iterate(id, Continue)

SpecTorn == Init /\ [][NextTorn]_vars

\* the inputs of the Writes that run at the same time: two of the configured
\* size, one that is shorter
WriterInputs == TamperInputs \cup {<<-1, MessageOf(7, MessageSize - 1)>>}

\* the callers call Write of one Writer at the same time
NextWriters ==
    \/ \E p \in Callers, in \in WriterInputs : WriteCall(p, in[1], in[2])
    \/ \E p \in Callers : WriteLock(p)
    \/ \E p \in Callers : WriteSeek(p)
    \/ \E p \in Callers : WriteAppend(p)

SpecWriters == Init /\ [][NextWriters]_vars

\* the number of bytes written by a w.w.Write that fails
FailLengths == {0} \cup TornLengths

\* one Writer on a store whose Seek and Write can fail, and a Reader
NextFail ==
    \/ \E in \in {NextInput} : Write(in[1], in[2])
    \/ \E in \in {NextInput}, n \in FailLengths : WriteShort(in[1], in[2], n)
    \/ \E in \in {NextInput} : WriteSeekFails(in[1], in[2])
    \/ \E id \in TamperIDs : Read(id)
    \/ \E id \in TamperIDs : Iterate(id, Continue)

SpecFail == Init /\ [][NextFail]_vars

\* one Writer, and records appended through another handle between its
\* Writes
NextGrown ==
    \/ \E in \in TamperInputs : Write(in[1], in[2])
    \/ \E in \in TamperInputs : OtherWrite(in[1], in[2])
    \/ \E id \in TamperIDs : Read(id)

SpecGrown == Init /\ [][NextGrown]_vars

\* Iterate taken one pass of its loop at a time, on the stores of SpecTorn
\* with at most one byte overwritten and on a store made outside the
\* library; the store is not changed while an Iterate runs
NextWalk ==
    \/ \E in \in {NextInput} : AllIdle /\ Write(in[1], in[2])
    \/ \E in \in {NextInput}, n \in TornLengths :
          AllIdle /\ WriteShort(in[1], in[2], n)
    \/ AllIdle /\ Reopen
    \/ \E offset \in CorruptOffsets :
          AllIdle /\ dirty = {} /\ Corrupt(offset)
    \/ AllIdle /\ Forge
    \/ \E id \in TamperIDs : IterateCall("a", id)
    \/ IterateStep("a")

SpecWalk == Init /\ [][NextWalk]_vars

\* the callers call Read of one Reader at the same time; records are written
\* while no Read runs
NextReaders ==
    \/ \E in \in {NextInput} : AllIdle /\ Write(in[1], in[2])
    \/ \E p \in Callers, id \in TamperIDs : ReadCall(p, id)
    \/ \E p \in Callers : ReadSeek(p)
    \/ \E p \in Callers : ReadFinish(p)

SpecReaders == Init /\ [][NextReaders]_vars

\* the ids read while a Write runs
SharedIDs == {-1, 0, 1}

\* caller a calls Write and caller b calls Read at the same time, on a Writer
\* and a Reader made on one handle of the store
NextShared ==
    \/ \E in \in {NextInput} : WriteCall("a", in[1], in[2])
    \/ WriteLock("a")
    \/ WriteSeek("a")
    \/ WriteAppend("a")
    \/ \E id \in SharedIDs : ReadCall("b", id)
    \/ ReadSeek("b")
    \/ ReadFinish("b")

SpecShared == Init /\ [][NextShared]_vars

\* ------------------------------------------------------------------------
\* The records of the store, as the layout defines them
\* ------------------------------------------------------------------------
NumRecords == Len(store) \div recordSize

StoredTimestamp(id) ==
    Slice(store, id * recordSize, id * recordSize + timestampSize)

StoredMessage(id) ==
    Slice(store, id * recordSize + timestampSize,
          id * recordSize + timestampSize + MessageSize)

StoredHash(id) ==
    Slice(store, id * recordSize + timestampSize + MessageSize,
          (id + 1) * recordSize)

PreviousHash(id) == IF id = 0 THEN Zeros(HashSize) ELSE StoredHash(id - 1)

\* record id satisfies the chain invariant
ChainOK(id) ==
    StoredHash(id) =
        Hash(PreviousHash(id) \o StoredTimestamp(id) \o StoredMessage(id))

\* the id a start or read id stands for
Resolved(id) == IF id < 0 THEN NumRecords - 1 ELSE id

VisitedIDs == [n \in 1..Len(last.visits) |-> last.visits[n].ID]

\* <<from, from - 1, ..., to>>
Down(from, to) == [n \in 1..(from - to + 1) |-> from - n + 1]

Max(S) == CHOOSE x \in S : \A y \in S : y <= x

TypeOK ==
    /\ pos \in Nat
    /\ Len(writer.buf) = bufSize
    /\ Len(log) <= NumRecords

\* ------------------------------------------------------------------------
\* C1..C10
\* ------------------------------------------------------------------------

\* C1: after N successful Writes on an empty store, Read(i) for 0 <= i < N
\* succeeds and returns the Record with ID i, the time and the message passed
\* to the i-th Write and the hash that Write returned.
C1_ReadReturnsWritten ==
    (last.op = "Read" /\ last.arg \in 0..(Len(log) - 1))
        => (last.err = NoError /\ last.rec = log[last.arg + 1])

C1_Witness ==
    /\ last.op = "Read" /\ last.arg = 1 /\ Len(log) = 3
    /\ last.err = NoError
    /\ last.rec.Time = <<-1, Second - 1>>
    /\ log[1].Time # log[2].Time /\ log[3].Message # log[2].Message

\* C2: every stored record satisfies the chain invariant: the hash of
\* record 0 is Hash(zero || timestamp || message), the hash of record
\* id >= 1 is Hash(stored hash of id-1 || timestamp || message).
C2_ChainInvariant == \A id \in 0..(NumRecords - 1) : ChainOK(id)

C2_Witness ==
    /\ NumRecords = 3 /\ last.op = "Write" /\ last.err = NoError
    /\ StoredHash(2) # StoredHash(1) /\ StoredHash(1) # StoredHash(0)

\* C3: the successful Writes return the ids 0, 1, 2, ... in call order; a
\* failed Write consumes no id.
C3_DenseIDs == \A n \in 1..Len(log) : log[n].ID = n - 1

\* a Write has just failed between two records
C3_Witness ==
    /\ last.op = "Write" /\ last.err = Err("InvalidMessageSize")
    /\ Len(log) = 2 /\ log[2].ID = 1

\* C4: a fresh Writer over a store of K records has lastRecordID = K - 1 and
\* the stored hash of record K - 1 (zeros when K = 0) as its chain head, and
\* its next Write returns the id and the hash and leaves the store that the
\* Write of the earlier Writer would.
C4_ReopenSameWriter ==
    [][last'.op = "NewWriter" =>
        /\ writer'.lastRecordID = NumRecords - 1
        /\ Slice(writer'.buf, 0, HashSize) = PreviousHash(NumRecords)
        /\ \A t \in Times, m \in Messages :
              LET a == WriterWrite(writer', store, pos', t, m)
                  b == WriterWrite(writer, store, pos, t, m)
              IN  /\ a.err = NoError /\ b.err = NoError
                  /\ a.id = NumRecords /\ a.id = b.id
                  /\ a.hash = b.hash /\ a.file = b.file]_vars

C4_Witness ==
    /\ last.op = "NewWriter" /\ NumRecords = 2
    /\ writer.lastRecordID = 1
    /\ Slice(writer.buf, 0, HashSize) = StoredHash(1)
    /\ Slice(writer.buf, HashSize, bufSize) = Zeros(bufSize - HashSize)

\* C5: on K >= 1 valid records, with a callback that always continues,
\* Iterate(-1) calls it K times with the records K-1, ..., 0 in this order
\* and Iterate(j), 0 <= j < K, j+1 times with the records j, ..., 0; each
\* call carries the time, message and hash of the record, and Iterate
\* returns nil.
C5_IterateDown ==
    (/\ last.op = "Iterate" /\ last.cb = Continue
     /\ NumRecords >= 1 /\ last.arg < NumRecords)
        => LET j == Resolved(last.arg)
           IN  /\ last.err = NoError
               /\ Len(last.visits) = j + 1
               /\ \A n \in 1..(j + 1) : last.visits[n] = log[j - n + 2]

C5_Witness ==
    /\ last.op = "Iterate" /\ last.cb = Continue /\ last.arg = -1
    /\ NumRecords = 3 /\ VisitedIDs = <<2, 1, 0>> /\ last.err = NoError

\* the one byte overwritten lies in the timestamp or the message of a record
OneFieldByte ==
    /\ Cardinality(dirty) = 1
    /\ \A o \in dirty : o % recordSize < timestampSize + MessageSize

\* the record the overwritten byte lies in
DirtyRecord == (CHOOSE o \in dirty : TRUE) \div recordSize

\* C6, as claimed: after a single byte of the timestamp or message of
\* record k is changed, Read(k) and Read(i) for every later record
\* k < i < N return an Integrity error.
C6_ReadFailsFromTampered ==
    (/\ last.op = "Read" /\ OneFieldByte
     /\ Resolved(last.arg) >= DirtyRecord
     /\ Resolved(last.arg) < NumRecords)
        => last.err.kind = "Integrity"

\* C6, amended: after a single byte of the timestamp or message of record k
\* is changed, Read(k) returns an Integrity error and no record; Read(i) of
\* a later record k < i < N does not detect the change and returns record i
\* as written; Iterate from record i >= k returns an Integrity error for
\* record k after the records i, ..., k+1 are passed to the callback.
C6_ReadFailsAtTampered ==
    OneFieldByte =>
        LET k == DirtyRecord
            i == Resolved(last.arg)
        IN  /\ (last.op = "Read" /\ i = k)
                => (last.err.kind = "Integrity" /\ last.rec = NoRecord)
            /\ (last.op = "Read" /\ i > k /\ i < NumRecords)
                => (last.err = NoError /\ last.rec = log[i + 1])
            /\ (last.op = "Iterate" /\ i >= k /\ i < NumRecords)
                => (/\ last.err = ErrRecord("Integrity", k)
                    /\ VisitedIDs = Down(i, k + 1))

C6_Witness ==
    /\ OneFieldByte /\ DirtyRecord = 1 /\ NumRecords = 3
    /\ last.op = "Read" /\ last.arg = 1 /\ last.err.kind = "Integrity"

\* what C7 says of the Iterate call that has just returned
IterateValidated ==
           LET j   == Resolved(last.arg)
               Bad == {id \in 0..j : ~ChainOK(id)}
           IN  /\ \A n \in 1..Len(last.visits) :
                     LET v == last.visits[n]
                     IN  /\ v.ID \in 0..(NumRecords - 1)
                         /\ ChainOK(v.ID)
                         /\ v.Hash = StoredHash(v.ID)
                         /\ v.Message = StoredMessage(v.ID)
               /\ (j < NumRecords /\ Bad # {})
                     => /\ last.err = ErrRecord("Integrity", Max(Bad))
                        /\ VisitedIDs = Down(j, Max(Bad) + 1)
               /\ (j < NumRecords /\ last.err = NoError)
                     => \A id \in 0..j : ChainOK(id)

\* C7, as claimed: for any store content, Iterate passes to the callback
\* only records whose stored hash is Hash(previous stored hash || timestamp
\* || message); if a record with id <= start fails that check, Iterate
\* returns an Integrity error tagged with the highest such id after the
\* callback got exactly the records above it; Iterate returning nil with a
\* callback that always continues implies that the records 0..start satisfy
\* the chain invariant.
C7_IterateValidatesAnyStore ==
    (last.op = "Iterate" /\ last.cb = Continue) => IterateValidated

\* C7, amended: the same, for a start >= 0 on any store content and for a
\* negative start on a store whose length is a multiple of the record size
\* (a negative start walks back from the end of the store, not from the
\* end of its last whole record).
C7_IterateValidates ==
    (/\ last.op = "Iterate" /\ last.cb = Continue
     /\ (last.arg >= 0 \/ Len(store) % recordSize = 0))
        => IterateValidated

\* the hash of record 1 is overwritten: records 1 and 2 fail the check
C7_Witness ==
    /\ last.op = "Iterate" /\ last.arg = -1 /\ NumRecords = 3
    /\ Len(store) = 3 * recordSize
    /\ ~ChainOK(1) /\ ~ChainOK(2) /\ ChainOK(0)
    /\ last.err = ErrRecord("Integrity", 2) /\ last.visits = <<>>

\* C8: on an empty store Read(id) returns NotFound for every id, Iterate
\* with start < 0 returns nil and Iterate with start >= 0 returns NotFound,
\* both without calling the callback.
C8_EmptyStore ==
    NumRecords = 0 =>
        /\ last.op = "Read" => (last.err = Err("NotFound") /\ last.rec = NoRecord)
        /\ last.op = "Iterate" =>
              /\ last.visits = <<>>
              /\ last.err = IF last.arg < 0 THEN NoError ELSE Err("NotFound")

C8_Witness ==
    /\ NumRecords = 0 /\ Len(store) = 0
    /\ last.op = "Iterate" /\ last.arg < 0 /\ last.err = NoError

\* C9: on a store of exactly N >= 0 complete records, Read(id) returns
\* NotFound for every id >= N, id = N included.
C9_ReadPastEndNotFound ==
    (last.op = "Read" /\ last.arg >= NumRecords) => last.err = Err("NotFound")

\* C10: on a store of exactly K >= 0 complete records, Iterate(start) for
\* every start >= K returns NotFound and never calls the callback.
C10_IteratePastEndNotFound ==
    (last.op = "Iterate" /\ last.arg >= NumRecords)
        => (last.err = Err("NotFound") /\ last.visits = <<>>)

C10_Witness ==
    /\ last.op = "Iterate" /\ last.arg = NumRecords /\ NumRecords = 2
    /\ last.err = Err("NotFound")

\* ------------------------------------------------------------------------
\* C11..C20
\* ------------------------------------------------------------------------

\* C11: after N >= 1 successful Writes, Read(id) for a negative id succeeds
\* and returns the Record that Read(N-1) returns: ID N-1 with the time, the
\* message and the hash of the last Write.
C11_ReadNegativeIsLast ==
    (last.op = "Read" /\ last.arg < 0 /\ Len(log) >= 1)
        => LET r == ReaderRead(store, pos, Len(log) - 1)
           IN  /\ last.err = NoError /\ r.err = NoError
               /\ last.rec = r.rec
               /\ last.rec.ID = Len(log) - 1
               /\ last.rec = log[Len(log)]

C11_Witness ==
    /\ last.op = "Read" /\ last.arg = -2 /\ Len(log) = 3
    /\ last.err = NoError /\ last.rec.ID = 2 /\ last.rec.Hash = StoredHash(2)

\* UnixNano of the Time of a Record
NanoOf(time) == time[1] * Second + time[2]

\* the Writer and the store after the first n logged Writes are run one after
\* the other on an empty store, and what the n-th returns
RECURSIVE SequentialRun(_)
SequentialRun(n) ==
    IF n = 0
    THEN [w |-> NewWriter(<<>>).w, file |-> <<>>, id |-> -1,
          hash |-> Zeros(HashSize)]
    ELSE LET prev == SequentialRun(n - 1)
             r    == WriterWrite(prev.w, prev.file, Len(prev.file),
                                 NanoOf(log[n].Time), log[n].Message)
         IN  [w |-> r.w, file |-> r.file, id |-> r.id, hash |-> r.hash]

\* C12: when Write is called by several callers at the same time, the calls
\* run one at a time: the successful calls get the ids 0, 1, 2, ... in the
\* order they are serialized in, the record of each is chained from the hash
\* of the record of the call serialized before it, and the store is the one
\* that the same calls leave when they are run one after the other in that
\* order.
C12_WritesSerialized ==
    /\ \A n \in 1..Len(log) :
          /\ log[n].ID = n - 1
          /\ log[n].Hash =
                Hash((IF n = 1 THEN Zeros(HashSize) ELSE log[n - 1].Hash)
                     \o PutUint64(NanoOf(log[n].Time)) \o log[n].Message)
          /\ log[n].Hash = SequentialRun(n).hash
          /\ log[n].Hash = StoredHash(n - 1)
    /\ store = SequentialRun(Len(log)).file

\* a Write returns while the other caller waits for the mutex
C12_Witness ==
    /\ last.op = "Write" /\ last.err = NoError /\ Len(log) = 2
    /\ log[1].Message # log[2].Message
    /\ \E p \in Callers : calls[p].pc = "lock" /\ Len(calls[p].message) = MessageSize

\* C13: when Read is called by several callers at the same time on one
\* Reader, and no Write runs, every call returns what it returns when it
\* runs alone on the store: the same error, and the same Record, so that a
\* Record with ID i carries the time, the message and the hash of record i.
C13_ConcurrentReadsAsAlone ==
    last.op = "Read" =>
        LET r == ReaderRead(store, pos, last.arg)
        IN  last.err = r.err /\ last.rec = r.rec

\* a is a prefix of b
IsPrefix(a, b) == Len(a) <= Len(b) /\ SubSeq(b, 1, Len(a)) = a

\* C16: records are immutable once appended: under any sequence of NewWriter,
\* Write, Read and Iterate, the steps of a Read interleaved with the seek to
\* the end and the append of a Write on the same handle included, the store
\* before a step is a byte prefix of the store after it.
C16_StoreOnlyGrows == [][IsPrefix(store, store')]_vars

\* the bytes of the store behind its last whole record
TailBytes == Slice(store, NumRecords * recordSize, Len(store))

\* the store is the N records written followed by a part of record N: a
\* proper, non empty prefix of the record of the Write that failed
TornTail ==
    /\ TailBytes # <<>>
    /\ NumRecords = Len(log)
    /\ Slice(store, 0, NumRecords * recordSize) = SequentialRun(Len(log)).file
    /\ TailBytes = Slice(WriteRecord(writer.buf), 0, Len(TailBytes))

\* C14: on a store of N valid records followed by a partially written
\* record N, Read either returns a record with id < N as it was written or
\* fails with NotFound, IncompleteRead or Integrity, and Iterate passes to
\* the callback only records with id < N as they were written and returns
\* nil or one of these errors: nothing made of the bytes of the tail is
\* returned or passed on as a record.
C14_TornTailNeverValid ==
    TornTail =>
        /\ last.op = "Read" =>
              \/ /\ last.err = NoError
                 /\ last.rec.ID \in 0..(NumRecords - 1)
                 /\ last.rec = log[last.rec.ID + 1]
              \/ /\ last.err.kind \in {"NotFound", "IncompleteRead", "Integrity"}
                 /\ last.rec = NoRecord
        /\ last.op = "Iterate" =>
              /\ last.err.kind \in {"nil", "NotFound", "IncompleteRead",
                                    "Integrity"}
              /\ \A n \in 1..Len(last.visits) :
                    /\ last.visits[n].ID \in 0..(NumRecords - 1)
                    /\ last.visits[n] = log[last.visits[n].ID + 1]

\* Iterate from the end of a store of two records and a tail
C14_Witness ==
    /\ TornTail /\ NumRecords = 2 /\ Len(TailBytes) = recordSize - 1
    /\ last.op = "Iterate" /\ last.arg = -1
    /\ last.err.kind = "Integrity" /\ last.visits = <<>>

\* the last logged Write is chained from the hash of the one before it
LastLoggedChained ==
    LET n == Len(log)
    IN  n >= 1 =>
          log[n].Hash =
              Hash((IF n = 1 THEN Zeros(HashSize) ELSE log[n - 1].Hash)
                   \o PutUint64(NanoOf(log[n].Time)) \o log[n].Message)

\* C20: lastRecordID and the chain head move only with a successful append:
\* a Write whose seek to the end or whose write fails returns an error and
\* leaves lastRecordID and the chain head as they were; the next successful
\* Write returns the id after the last successful one and hashes from the
\* hash of the last successfully appended record.
C20_FailedWriteKeepsHead ==
    [][last'.op = "Write" =>
        /\ last'.err.kind \in {"Seek", "Write"} =>
              /\ writer'.lastRecordID = writer.lastRecordID
              /\ Slice(writer'.buf, 0, HashSize) = Slice(writer.buf, 0, HashSize)
              /\ log' = log
        /\ last'.err = NoError =>
              /\ Len(log') = Len(log) + 1
              /\ last'.rec = log'[Len(log')]
              /\ last'.rec.ID = Len(log)
              /\ LastLoggedChained'
              /\ writer'.lastRecordID = Len(log)
              /\ Slice(writer'.buf, 0, HashSize) = last'.rec.Hash]_vars

\* a Write succeeds after one that left a part of its record in the store
C20_Witness ==
    /\ last.op = "Write" /\ last.err = NoError
    /\ Len(store) = 2 * recordSize + 1
    /\ Len(log) = 2 /\ last.rec.ID = 1 /\ LastLoggedChained

\* C15: Write with a message whose length is not the configured size
\* returns InvalidMessageSize, appends nothing to the store and leaves
\* lastRecordID and the chain head as they were: the next Write of a message
\* of the configured size gets the id and the hash it would have got without
\* the rejected call.
C15_RejectedWriteNoEffect ==
    [][(\A t \in Times, m \in BadMessages :
          LET r == WriterWrite(writer, store, pos, t, m)
          IN  /\ r.err = Err("InvalidMessageSize")
              /\ r.file = store /\ r.w = writer)
       /\ (last'.op = "Write" /\ last'.err # NoError =>
              /\ last'.err = Err("InvalidMessageSize")
              /\ store' = store /\ writer' = writer /\ log' = log
              /\ \A t \in Times, m \in Messages :
                    LET a == WriterWrite(writer', store', pos', t, m)
                        b == WriterWrite(writer, store, pos, t, m)
                    IN  /\ a.err = NoError /\ a.id = NumRecords
                        /\ a.id = b.id /\ a.hash = b.hash
                        /\ a.file = b.file)]_vars

\* a Write is rejected after a Read has moved the cursor of a store of two
\* records
C15_Witness ==
    /\ last.op = "Write" /\ last.err = Err("InvalidMessageSize")
    /\ NumRecords = 2 /\ writer.lastRecordID = 1 /\ pos < Len(store)
    /\ Slice(writer.buf, 0, HashSize) = StoredHash(1)

\* the callback of the last Iterate was called with the record it stops or
\* fails at
ReachedAt == \E n \in 1..Len(last.visits) : last.visits[n].ID = last.cb.at

\* C17: Iterate stops as soon as the callback asks for it.  When the
\* callback returns false at record k, Iterate returns nil and the callback
\* is not called for an id < k; when it returns an error at record k,
\* Iterate returns an error that wraps it with the id k and the callback is
\* not called again.
C17_IterateStopsOnCallback ==
    (last.op = "Iterate" /\ last.cb.kind \in {"stop", "fail"} /\ ReachedAt) =>
        LET k == last.cb.at
            j == Resolved(last.arg)
        IN  /\ VisitedIDs = Down(j, k)
            /\ \A n \in 1..Len(last.visits) :
                  last.visits[n] = log[last.visits[n].ID + 1]
            /\ last.cb.kind = "stop" => last.err = NoError
            /\ last.cb.kind = "fail" => last.err = ErrRecord("Callback", k)

\* the callback stops at record 1 of three
C17_Witness ==
    /\ last.op = "Iterate" /\ last.cb = StopAt(1) /\ last.arg = -1
    /\ NumRecords = 3 /\ VisitedIDs = <<2, 1>> /\ last.err = NoError

\* C18: when Read(id) fails because the recomputed hash differs from the
\* stored one, its error is an Integrity error tagged with the id of the
\* record (the id a negative id stands for), as the Integrity errors of
\* Iterate are.
C18_ReadIntegrityTagged ==
    (last.op = "Read" /\ last.err.kind = "Integrity")
        => last.err = ErrRecord("Integrity", Resolved(last.arg))

\* C19: with one Writer on a store that starts empty or as a whole number of
\* records, and writes that do not fail, after every Write, successful or
\* rejected, the length of the store is a multiple of the record size and
\* equals (lastRecordID + 1) * recordSize, and the chain head of the Writer
\* is the last HashSize bytes of the store (zeros when it is empty): the
\* Writer holds what NewWriter makes from the store.
C19_WriterMatchesStore ==
    LET head  == Slice(writer.buf, 0, HashSize)
        fresh == NewWriter(store)
    IN  /\ Len(store) % recordSize = 0
        /\ Len(store) = (writer.lastRecordID + 1) * recordSize
        /\ head = IF Len(store) = 0 THEN Zeros(HashSize)
                  ELSE Slice(store, Len(store) - HashSize, Len(store))
        /\ fresh.err = NoError
        /\ fresh.w.lastRecordID = writer.lastRecordID
        /\ Slice(fresh.w.buf, 0, HashSize) = head

\* a Write is rejected after two records were written by a Writer that was
\* made on the empty store
C19_Witness ==
    /\ last.op = "Write" /\ last.err = Err("InvalidMessageSize")
    /\ Len(store) = 2 * recordSize /\ writer.lastRecordID = 1
    /\ Slice(writer.buf, HashSize, bufSize) = WriteRecord(WriteFill(
           PreviousHash(1) \o Zeros(bufSize - HashSize),
           NanoOf(log[2].Time), log[2].Message))

\* ------------------------------------------------------------------------
\* C21..C22
\* ------------------------------------------------------------------------

\* C21: when the store has grown by whole valid records appended through
\* another handle since the Writer was made or last wrote, the next Write of
\* the Writer appends its record behind them, the id it returns is the
\* index of the record in the store, and the record passes the validation
\* of the Reader there: it is chained from the last record of the store.
C21_WriteAfterGrowth ==
    (/\ last.op = "Write" /\ last.err = NoError
     /\ \A id \in 0..(NumRecords - 2) : ChainOK(id))
        => /\ Len(store) % recordSize = 0
           /\ StoredHash(NumRecords - 1) = last.rec.Hash
           /\ last.rec.ID = NumRecords - 1
           /\ ChainOK(NumRecords - 1)
           /\ ReaderRead(store, pos, NumRecords - 1).err = NoError

\* the number of times one call of Iterate with this start id can call the
\* callback on a store of this length: the whole records, and one more for a
\* negative start id on a store that ends more than hashSize bytes behind
\* its last whole record
MaxVisits(length, startID) ==
    (length \div recordSize)
        + (IF startID < 0 /\ length % recordSize > HashSize THEN 1 ELSE 0)

\* C22 as stated: Iterate terminates for every store content and every start
\* id, corrupted stores and stores whose length is not a multiple of the
\* record size included: the offset it reads from gets strictly smaller with
\* every pass of the loop until it is clamped to 0, the pass at offset 0 is
\* the last one, and the callback is called at most
\* floor(length / recordSize) times in one call.
C22_IterateBounded ==
    [][LET before == calls["a"]
           after  == calls'["a"]
       IN  /\ (before.pc = "loop" /\ after.pc = "loop") =>
                 /\ after.c < before.c
                 /\ after.c = ClampOffset(before.c - recordSize)
                 /\ Len(after.visits) = Len(before.visits) + 1
           /\ (before.pc = "loop" /\ before.c = 0) => after.pc = "idle"
           /\ (before.pc = "loop" /\ after.pc = "idle") =>
                 /\ last'.op = "Iterate"
                 /\ Len(last'.visits) <= Len(store) \div recordSize]_vars

\* C22 amended: Iterate terminates for every store content and every start
\* id: the offset it reads from gets strictly smaller with every pass of the
\* loop until it is clamped to 0, the pass at offset 0 is the last one, and
\* the callback is called at most floor(length / recordSize) times in one
\* call, and at most once more when the start id is negative and the store
\* ends more than hashSize bytes behind its last whole record.
C22_IterateTerminates ==
    [][LET before == calls["a"]
           after  == calls'["a"]
       IN  /\ (before.pc = "loop" /\ after.pc = "loop") =>
                 /\ 0 <= after.c /\ after.c < before.c
                 /\ after.c = ClampOffset(before.c - recordSize)
                 /\ Len(after.visits) = Len(before.visits) + 1
           /\ (before.pc = "loop" /\ before.c = 0) => after.pc = "idle"
           /\ (before.pc = "loop" /\ after.pc = "idle") =>
                 /\ last'.op = "Iterate"
                 /\ Len(last'.visits) <= MaxVisits(Len(store), before.id)]_vars

\* Iterate from the end of the store made outside the library has returned
\* nil after the pass at offset 0, the callback called twice on a store that
\* is shorter than two records
C22_Witness ==
    /\ last.op = "Iterate" /\ last.arg = -1 /\ last.err = NoError
    /\ calls["a"].pc = "idle"
    /\ Len(store) = 2 * recordSize - 1
    /\ pos = recordSize - HashSize
    /\ Len(last.visits) = 2
    /\ last.visits[2].ID = 0 /\ last.visits[1].ID = 1

====
